---- MODULE Spec2Model ----
(***************************************************************************)
(* Model of claude_setup.py: the command-line entry point main(), the      *)
(* ClaudeProjectSetup object and the filesystem it writes to.              *)
(*                                                                         *)
(* Strings are sequences of symbols.  A project name is a sequence of      *)
(* characters; a fixed file name or a literal piece of template text is a  *)
(* one-symbol sequence.  A path is a sequence of components, each of them  *)
(* a string.  The filesystem is a function from the existing absolute      *)
(* paths to directory or file nodes.                                       *)
(*                                                                         *)
(* Console output is taken to succeed always; the failures modelled are    *)
(* the failures of mkdir(), open() and write().                            *)
(***************************************************************************)
EXTENDS Integers, Sequences, FiniteSets, TLC

\* ------------------------------------------------------------------ bounds

MaxNameLen == 1
MaxClock == 1
\* Clock instants per calendar day
TicksPerDay == 1
\* How often the filesystem calls of two concurrent runs pass from one run to
\* the other before one of them has ended
MaxSwitches == 1

\* --------------------------------------------------------------- characters

AsciiLetters == {"a"}
AsciiDigits == {"7"}
Hyphen == "-"
Underscore == "_"
\* A letter outside ASCII: str.isalnum() is true of it.
UnicodeLetters == {"é"}
\* Punctuation and white space: str.isalnum() is false of them.
OtherChars == {"!"}

Alphabet ==
    AsciiLetters \cup AsciiDigits \cup {Hyphen, Underscore} \cup UnicodeLetters \cup OtherChars

SeqsUpTo(S, n) == UNION {[1..k -> S] : k \in 0..n}

Names == SeqsUpTo(Alphabet, MaxNameLen)

\* ------------------------------------------------------- python str methods

\* str.replace(c, '') for a one-character c
Replace(s, c) == SelectSeq(s, LAMBDA x : x # c)

\* str.isalnum(): at least one character and every character alphanumeric
\* (Unicode letters and digits count)
IsAlnum(s) ==
    /\ Len(s) > 0
    /\ \A i \in 1..Len(s) : s[i] \in AsciiLetters \cup AsciiDigits \cup UnicodeLetters

\* main(): the condition under which the name is NOT rejected
ValidName(n) == IsAlnum(Replace(Replace(n, Hyphen), Underscore))

\* The pattern ^[A-Za-z0-9_-]+$ of the specification
MatchesPattern(n) ==
    /\ Len(n) > 0
    /\ \A i \in 1..Len(n) : n[i] \in AsciiLetters \cup AsciiDigits \cup {Hyphen, Underscore}

\* ------------------------------------------------------------------- paths

Comp(s) == <<s>>

Cwd == <<Comp("work")>>

None == [tag |-> "None"]
Str(abs, parts) == [tag |-> "str", abs |-> abs, parts |-> parts]

\* The values of --path that are tried: omitted, the empty string and the
\* absolute path /tmp/projects
PathArgs == {None, Str(FALSE, <<>>), Str(TRUE, <<Comp("tmp"), Comp("projects")>>)}

\* Truth value of an Optional[str]: None and '' are false
Truthy(p) == p.tag = "str" /\ (p.abs \/ Len(p.parts) > 0)

\* pathlib.Path(s) as an absolute location
PathOf(p) == IF p.abs THEN p.parts ELSE Cwd \o p.parts

ProjectPathAsParent(n, p) == IF Truthy(p) THEN PathOf(p) \o <<n>> ELSE Cwd \o <<n>>

\* ClaudeProjectSetup.__init__: self.project_path
ProjectPath(n, p) == IF Truthy(p) THEN PathOf(p) ELSE Cwd \o <<n>>

ClaudeDir(root) == root \o <<Comp(".claude")>>
DocsDir(root) == root \o <<Comp("docs")>>
AgentsDir(root) == ClaudeDir(root) \o <<Comp("agents")>>

\* ------------------------------------------------------ date and time text

\* datetime.isoformat(): the date, "T", the time of day
IsoFormat(t) == <<ToString(t \div TicksPerDay), "T", ToString(t % TicksPerDay)>>

\* datetime.strftime('%Y-%m-%d'): the date alone
StrfDate(t) == <<ToString(t \div TicksPerDay)>>

\* ------------------------------------------------------- the file catalog

\* create_directory_structure: the list `directories`
Directories(root) == <<root, ClaudeDir(root), AgentsDir(root), DocsDir(root)>>

\* The files in the order in which setup_project writes them:
\* [step of setup_project, directory, file name, template]
FileOrderNoDebugger ==
    << [step |-> 2, dir |-> "claude", file |-> "settings.json"],
       [step |-> 3, dir |-> "agents", file |-> "mvp-planner.md"],
       [step |-> 3, dir |-> "agents", file |-> "architect.md"],
       [step |-> 3, dir |-> "agents", file |-> "code-reviewer.md"],
       [step |-> 3, dir |-> "agents", file |-> "test-runner.md"],
       [step |-> 4, dir |-> "docs", file |-> "01-scope.md"],
       [step |-> 4, dir |-> "docs", file |-> "02-decisions.md"],
       [step |-> 4, dir |-> "docs", file |-> "03-tasks.md"],
       [step |-> 4, dir |-> "docs", file |-> "architecture-design.md"],
       [step |-> 5, dir |-> "root", file |-> "CLAUDE.md"],
       [step |-> 5, dir |-> "root", file |-> "PLAYBOOK.md"],
       [step |-> 6, dir |-> "root", file |-> ".gitignore"],
       [step |-> 7, dir |-> "root", file |-> "README.md"] >>

FileOrder ==
    << [step |-> 2, dir |-> "claude", file |-> "settings.json"],
       [step |-> 3, dir |-> "agents", file |-> "mvp-planner.md"],
       [step |-> 3, dir |-> "agents", file |-> "architect.md"],
       [step |-> 3, dir |-> "agents", file |-> "code-reviewer.md"],
       [step |-> 3, dir |-> "agents", file |-> "test-runner.md"],
       [step |-> 3, dir |-> "agents", file |-> "debugger.md"],
       [step |-> 4, dir |-> "docs", file |-> "01-scope.md"],
       [step |-> 4, dir |-> "docs", file |-> "02-decisions.md"],
       [step |-> 4, dir |-> "docs", file |-> "03-tasks.md"],
       [step |-> 4, dir |-> "docs", file |-> "architecture-design.md"],
       [step |-> 5, dir |-> "root", file |-> "CLAUDE.md"],
       [step |-> 5, dir |-> "root", file |-> "PLAYBOOK.md"],
       [step |-> 6, dir |-> "root", file |-> ".gitignore"],
       [step |-> 7, dir |-> "root", file |-> "README.md"] >>

\* The directory object a file is joined to: self.claude_dir, self.agents_dir,
\* self.docs_dir or self.project_path
DirOf(root, d) ==
    CASE d = "claude" -> ClaudeDir(root)
      [] d = "agents" -> AgentsDir(root)
      [] d = "docs" -> DocsDir(root)
      [] OTHER -> root

FilePathNotes(root, e) ==
    IF e.file = "README.md" THEN root \o <<Comp("notes.txt")>>
    ELSE DirOf(root, e.dir) \o <<Comp(e.file)>>

FilePath(root, e) == DirOf(root, e.dir) \o <<Comp(e.file)>>

\* The names of the docs dict of create_documentation_structure, in order
DocNames == <<"01-scope.md", "02-decisions.md", "03-tasks.md", "architecture-design.md">>

\* ------------------------------------------------------------ the settings

\* A permission rule Tool(./seg/seg): the tool and the glob's segments, each
\* segment a string; "*" ends a segment pattern, "**" is a segment of its own
Rule(tool, segs) == [tool |-> tool, glob |-> segs]

DenyRulesNoSecretsWrite ==
    << Rule("Read", <<Comp(".env")>>),
       Rule("Read", <<<<".env.", "*">>>>),
       Rule("Read", <<Comp("secrets"), Comp("**")>>),
       Rule("Read", <<Comp("config"), Comp("credentials.json")>>),
       Rule("Read", <<Comp("private"), Comp("**")>>),
       Rule("Write", <<Comp(".env")>>),
       Rule("Write", <<<<".env.", "*">>>>) >>

\* create_claude_settings: settings["permissions"]["deny"]
DenyRules ==
    << Rule("Read", <<Comp(".env")>>),
       Rule("Read", <<<<".env.", "*">>>>),
       Rule("Read", <<Comp("secrets"), Comp("**")>>),
       Rule("Read", <<Comp("config"), Comp("credentials.json")>>),
       Rule("Read", <<Comp("private"), Comp("**")>>),
       Rule("Write", <<Comp(".env")>>),
       Rule("Write", <<<<".env.", "*">>>>),
       Rule("Write", <<Comp("secrets"), Comp("**")>>) >>

\* create_claude_settings: settings["permissions"]["allow"]
AllowRules ==
    << Rule("Read", <<Comp("docs"), Comp("**")>>),
       Rule("Read", <<Comp("src"), Comp("**")>>),
       Rule("Read", <<Comp("tests"), Comp("**")>>),
       Rule("Write", <<Comp("src"), Comp("**")>>),
       Rule("Write", <<Comp("tests"), Comp("**")>>),
       Rule("Write", <<Comp("docs"), Comp("**")>>) >>

SettingsAllowProject(n, t) ==
    [ kind |-> "json",
      permissions |->
          [deny |-> DenyRules, allow |-> Append(AllowRules, Rule("Read", <<n, Comp("**")>>))],
      context_limits |->
          [max_tokens |-> 150000, compact_at_percent |-> 70, warning_at_percent |-> 85],
      project_settings |-> [name |-> n, created |-> IsoFormat(t), version |-> "1.0.0"] ]

\* create_claude_settings: the settings mapping that json.dump writes, for
\* project name n and datetime.now() = t
Settings(n, t) ==
    [ kind |-> "json",
      permissions |-> [deny |-> DenyRules, allow |-> AllowRules],
      context_limits |->
          [max_tokens |-> 150000, compact_at_percent |-> 70, warning_at_percent |-> 85],
      project_settings |-> [name |-> n, created |-> IsoFormat(t), version |-> "1.0.0"] ]

\* ----------------------------------------------------------- the templates
\* A document is a sequence of lines and a line is a string.  The lines that
\* interpolate the project name or the date are modelled symbol by symbol;
\* the fixed remainder of each template is one line.

Text(lines) == [kind |-> "text", lines |-> lines]

MvpPlannerTemplate(n) ==
    Text(<< <<"# MVP Planner Agent">>,
            <<"You are the MVP Planner for ">> \o n \o <<". Your role is to convert vague goals into crisp scope with clear boundaries.">>,
            <<"[mvp-planner: responsibilities ...]">> >>)

ArchitectTemplate(n) ==
    Text(<< <<"# Architect Agent">>,
            <<"You are the Architect for ">> \o n \o <<". Your role is to maintain architectural consistency and make sound technical decisions.">>,
            <<"[architect: responsibilities ...]">> >>)

CodeReviewerTemplate(n) ==
    Text(<< <<"# Code Reviewer Agent">>,
            <<"You are the Code Reviewer for ">> \o n \o <<". Your role is to perform comprehensive quality and security reviews.">>,
            <<"[code-reviewer: responsibilities ...]">> >>)

TestRunnerTemplate(n) ==
    Text(<< <<"# Test Runner Agent">>,
            <<"You are the Test Runner for ">> \o n \o <<". Your role is to automate testing workflows and ensure comprehensive test coverage.">>,
            <<"[test-runner: responsibilities ...]">> >>)

DebuggerTemplateGeneric(n) ==
    Text(<< <<"# Debugger Agent">>,
            <<"You are the Debugger for this project. Your role is to systematically diagnose and resolve issues.">>,
            <<"[debugger: responsibilities ...]">> >>)

DebuggerTemplate(n) ==
    Text(<< <<"# Debugger Agent">>,
            <<"You are the Debugger for ">> \o n \o <<". Your role is to systematically diagnose and resolve issues.">>,
            <<"[debugger: responsibilities ...]">> >>)

ScopeTemplate(n, t) ==
    Text(<< <<"# Project Scope: ">> \o n,
            <<"[scope: overview ... stakeholders]">>,
            <<"**Last Updated**: ">> \o StrfDate(t),
            <<"**Next Review**: [Date for next scope review]">> >>)

DecisionsTemplate(n, t) ==
    Text(<< <<"# Architecture Decision Log: ">> \o n,
            <<"### ADR-001: Initial Technology Stack">>,
            <<"**Date**: ">> \o StrfDate(t),
            <<"[decisions: status ... template]">> >>)

TasksTemplate(n, t) ==
    Text(<< <<"# Task Checklist: ">> \o n,
            <<"[tasks: sprint ... backlog]">>,
            <<"**Last Updated**: ">> \o StrfDate(t),
            <<"**Next Review**: [Next sprint planning date]">> >>)

ArchitectureTemplate(n, t) ==
    Text(<< <<"# Architecture Design: ">> \o n,
            <<"[architecture: system overview ...]">>,
            <<"**Document Version**: 1.0">>,
            <<"**Last Updated**: ">> \o StrfDate(t),
            <<"**Next Review**: [Review date]">> >>)

ClaudeMdTemplate(n) ==
    Text(<< <<"# ">> \o n,
            <<"[CLAUDE.md: project context ...]">> >>)

PlaybookTemplate(n) ==
    Text(<< <<"# ">> \o n \o <<" Playbook">>,
            <<"This playbook explains how to effectively work on ">> \o n \o <<" using our optimized Claude Code workflow.">>,
            <<"cd ">> \o n,
            <<"[playbook: workflows ... monthly architecture review]">> >>)

\* create_gitignore: gitignore_content
GitignoreContent ==
    Text(<< <<"# Environment variables">>, <<".env">>, <<".env.*">>, <<"!.env.example">>,
            <<"# Secrets and credentials">>, <<"secrets/">>, <<"private/">>,
            <<"config/credentials.json">>,
            <<"[gitignore: editors, OS files, logs, build outputs ...]">> >>)

\* create_readme: readme_content
ReadmeContent(n) ==
    Text(<< <<"# ">> \o n,
            <<"## Claude Code Workflow">>,
            <<"[README: quick start ... architecture]">> >>)

\* The content written to catalog file `file` by a run with project name n
\* whose datetime.now() for that file returned t
Render(file, n, t) ==
    CASE file = "settings.json" -> Settings(n, t)
      [] file = "mvp-planner.md" -> MvpPlannerTemplate(n)
      [] file = "architect.md" -> ArchitectTemplate(n)
      [] file = "code-reviewer.md" -> CodeReviewerTemplate(n)
      [] file = "test-runner.md" -> TestRunnerTemplate(n)
      [] file = "debugger.md" -> DebuggerTemplate(n)
      [] file = "01-scope.md" -> ScopeTemplate(n, t)
      [] file = "02-decisions.md" -> DecisionsTemplate(n, t)
      [] file = "03-tasks.md" -> TasksTemplate(n, t)
      [] file = "architecture-design.md" -> ArchitectureTemplate(n, t)
      [] file = "CLAUDE.md" -> ClaudeMdTemplate(n)
      [] file = "PLAYBOOK.md" -> PlaybookTemplate(n)
      [] file = ".gitignore" -> GitignoreContent
      [] OTHER -> ReadmeContent(n)

\* ---------------------------------------------------------- the filesystem

Dir == [type |-> "dir"]
File(data) == [type |-> "file", data |-> data]

\* File content that no run of the program wrote
Old == [kind |-> "old"]
\* The content of a file just created or truncated by open(.., 'w')
Empty == [kind |-> "empty"]
\* What is on disk of `data` when write() or close() failed midway
Partial(data) == [kind |-> "partial", of |-> data]

Root == <<>>
Prefixes(p) == {SubSeq(p, 1, k) : k \in 0..Len(p)}
Parent(p) == SubSeq(p, 1, Len(p) - 1)
IsPrefix(p, q) == Len(p) <= Len(q) /\ SubSeq(q, 1, Len(p)) = p

Exists(f, p) == p \in DOMAIN f
IsDir(f, p) == Exists(f, p) /\ f[p].type = "dir"
IsFile(f, p) == Exists(f, p) /\ f[p].type = "file"

Put(f, p, node) == [q \in DOMAIN f \cup {p} |-> IF q = p THEN node ELSE f[q]]

\* A symbolic link to the path `to`
Link(to) == [type |-> "link", to |-> to]

\* The path that open(p, ..) acts on: open follows a symbolic link at p.  Links
\* are modelled at file paths only, one level deep
Resolve(f, p) == IF Exists(f, p) /\ f[p].type = "link" THEN f[p].to ELSE p

MkdirOkNoExistOk(f, p) ==
    /\ ~Exists(f, p)
    /\ \A q \in Prefixes(p) : Exists(f, q) => f[q].type = "dir"

\* Path.mkdir(parents=True, exist_ok=True) succeeds unless the path or one of
\* its ancestors exists and is not a directory
MkdirOk(f, p) == \A q \in Prefixes(p) : Exists(f, q) => f[q].type = "dir"

\* ... creating the first k components of p that are missing
MkdirUpTo(f, p, k) ==
    [q \in DOMAIN f \cup {SubSeq(p, 1, j) : j \in 0..k} |-> IF Exists(f, q) THEN f[q] ELSE Dir]

MkdirResultRecreate(f, p) ==
    [q \in {x \in DOMAIN f : ~(IsPrefix(p, x) /\ x # p)} \cup Prefixes(p) |->
        IF Exists(f, q) THEN f[q] ELSE Dir]

\* ... and on success every missing component of p
MkdirResult(f, p) == MkdirUpTo(f, p, Len(p))

OpenOkExclusive(f, p) == IsDir(f, Parent(p)) /\ ~Exists(f, p)

\* open(p, 'w') succeeds when the parent is a directory and p is not one
OpenOk(f, p) == IsDir(f, Parent(Resolve(f, p))) /\ ~IsDir(f, Resolve(f, p))

OpenResultAppend(f, p) == IF Exists(f, p) THEN f ELSE Put(f, p, File(Empty))

\* ... and creates the file or truncates it
OpenResult(f, p) == Put(f, Resolve(f, p), File(Empty))

RECURSIVE SumLen(_)
SumLen(lines) == IF lines = <<>> THEN 0 ELSE Len(Head(lines)) + SumLen(Tail(lines))

\* The length, in symbols, of a content the program writes; of a document
\* whose write failed midway at least one symbol is taken to be on disk
Size(data) ==
    CASE data.kind = "text" -> SumLen(data.lines)
      [] data.kind = "json" ->
            Len(data.project_settings.name) + Len(data.project_settings.created)
      [] data.kind = "partial" -> 1
      [] OTHER -> 0

RECURSIVE Longer(_, _)
\* The file content `have` is longer than data. Content that no run wrote is
\* arbitrary and taken to be longer than anything the program writes; a torn
\* content is as long as the content whose remainder it keeps
Longer(have, data) ==
    CASE have.kind = "old" -> TRUE
      [] have.kind = "torn" -> Longer(have.rest, data)
      [] OTHER -> Size(have) > Size(data)

OverlayAppend(have, data) ==
    IF data.kind = "empty" THEN have
    ELSE IF have.kind = "empty" THEN data
    ELSE [kind |-> "torn", head |-> have, rest |-> data]

\* What a file holding `have` holds after `data` is written at offset 0, where
\* open(.., 'w') left the position of the writer: data, followed by what of
\* `have` lies beyond the end of data
Overlay(have, data) ==
    IF data.kind = "empty" THEN have
    ELSE IF ~Longer(have, data) THEN data
    ELSE [kind |-> "torn", head |-> data, rest |-> have]

WriteResultUnflushed(f, p, data) ==
    LET q == Resolve(f, p)
    IN  Put(f, q, File(IF data.kind = "empty" THEN data ELSE Partial(data)))

\* f.write(data) and the close at the end of the with block
WriteResult(f, p, data) ==
    LET q == Resolve(f, p)
    IN  Put(f, q, File(IF IsFile(f, q) THEN Overlay(f[q].data, data) ELSE data))

ExceptFsRollback(f, root) == [q \in {x \in DOMAIN f : ~IsPrefix(root, x)} |-> f[q]]

\* setup_project's except clause prints and exits: the filesystem stays as it is
ExceptFs(f, root) == f

\* --------------------------------------------------------------- the state

\* The first run of the command and the run that repeats it
Runs == {1, 2}

\* The initial filesystems that are tried
Variants == {"fresh", "populated", "blocked", "dirfile"}
\* ... and the one in which README.md of the root is a symbolic link
LinkVariants == {"linked"}

VARIABLES
    name,          \* argv of the first run: the project name
    name2,         \* argv of the second run: the project name
    order,         \* the order in which setup_project calls its seven steps
    pathArg,       \* argv: the value of --path, or None
    pre,           \* which initial filesystem the behaviour started from
    fs,            \* the filesystem
    clock,         \* the value datetime.now() returned last
    pc,            \* run -> "idle", "main", "setup" or "exited"
    ip,            \* run -> position in Program, or ExceptIp
    project_path,  \* run -> self.project_path
    settings,      \* run -> <<>> or <<the settings mapping built>>
    docs,          \* run -> the templates of the docs dict rendered so far
    exc,           \* run -> <<>> or <<the exception raised>>
    exit_code,     \* run -> <<>> or <<the exit status of the process>>
    console,       \* the lines printed, oldest first
    log            \* the filesystem calls made, oldest first

\* What a behaviour starts from and never changes
inputs == <<name, name2, pathArg, pre, order>>

vars ==
    << inputs, fs, clock, pc, ip, project_path, settings, docs, exc, exit_code, console, log >>

\* argv of run r: the project name
NameOf(r) == IF r = 1 THEN name ELSE name2

\* ----------------------------------------------------- the program of a run

Op(op, step, dir, file, i) == [op |-> op, step |-> step, dir |-> dir, file |-> file, i |-> i]

RECURSIVE FileOps(_)
\* open and write, for each file of the sequence es
FileOps(es) ==
    IF es = <<>> THEN <<>>
    ELSE << Op("open", Head(es).step, Head(es).dir, Head(es).file, 0),
            Op("write", Head(es).step, Head(es).dir, Head(es).file, 0) >> \o FileOps(Tail(es))

StepFiles(s) == SelectSeq(FileOrder, LAMBDA e : e.step = s)

\* The calls of step s that touch the filesystem or the clock: s = 1 is
\* create_directory_structure, 2 create_claude_settings, 3
\* create_specialized_agents, 4 create_documentation_structure (which renders
\* its four templates before it writes the first), 5
\* create_main_context_files, 6 create_gitignore, 7 create_readme
StepOps(s) ==
    CASE s = 1 -> [i \in 1..Len(Directories(Root)) |-> Op("mkdir", 1, "", "", i)]
      [] s = 2 -> <<Op("settings", 2, "", "", 0)>> \o FileOps(StepFiles(2))
      [] s = 4 -> [i \in 1..Len(DocNames) |-> Op("doc", 4, "", DocNames[i], i)]
                  \o FileOps(StepFiles(4))
      [] OTHER -> FileOps(StepFiles(s))

RECURSIVE ProgramOf(_)
\* The body of setup_project's try block were its steps called in order o:
\* the calls of each step, then the completion message
ProgramOf(o) ==
    IF o = <<>> THEN <<Op("complete", 8, "", "", 0)>>
    ELSE StepOps(Head(o)) \o ProgramOf(Tail(o))

\* setup_project calls the seven steps in this order
ProgramOrder == <<1, 2, 3, 4, 5, 6, 7>>

\* Program order with step 1 moved to position k
DirectoriesAt(k) ==
    [i \in 1..Len(ProgramOrder) |-> IF i < k THEN i + 1 ELSE IF i = k THEN 1 ELSE i]

\* The orders of the seven steps that are tried: every order that keeps
\* create_directory_structure first, and program order with
\* create_directory_structure moved to a later position
Orders ==
    {<<1>> \o [i \in 1..(Len(ProgramOrder) - 1) |-> f[i + 1]] :
        f \in Permutations(2..Len(ProgramOrder))}
    \cup {DirectoriesAt(k) : k \in 1..Len(ProgramOrder)}

Programs == [o \in Orders |-> ProgramOf(o)]

ProgramReadmeBeforeGitignore == ProgramOf(<<1, 2, 3, 4, 5, 7, 6>>)

\* setup_project: the calls that touch the filesystem or the clock, in the
\* order of the run, then the completion message
Program == Programs[order]

\* Position of the except clause of setup_project
ExceptIp == Len(Program) + 1

RaiseSwallowed(i) == i + 1

\* Where control goes when the call at position i raises: out of the try block
Raise(i) == ExceptIp

HandlerExitSuccess(e) == 0

\* setup_project: the status its except clause passes to sys.exit for exception e
HandlerExit(e) == 1

\* main: sys.exit(1) after the validation message
InvalidNameStatus == 1

\* ------------------------------------------------------ the initial state

\* A file of the user that is not below any project root
Outside == Cwd \o <<Comp("outside.txt")>>

\* The filesystem of variant v for a project root `root`
InitFs(v, root) ==
    LET base == (Root :> Dir) @@ (Cwd :> Dir)
        upto == [q \in Prefixes(root) |-> Dir]
        dirs == [q \in {Directories(root)[i] : i \in 1..Len(Directories(root))} |-> Dir]
        files == [q \in {FilePath(root, FileOrder[i]) : i \in 1..Len(FileOrder)} |-> File(Old)]
    IN  CASE v = "fresh" -> base
          [] v = "linked" ->
                ((root \o <<Comp("README.md")>>) :> Link(Outside))
                @@ (Outside :> File(Old)) @@ upto @@ base
          [] v = "populated" ->
                ((root \o <<Comp("notes.txt")>>) :> File(Old))
                @@ ((DocsDir(root) \o <<Comp("extra.md")>>) :> File(Old))
                @@ files @@ dirs @@ upto @@ base
          [] v = "blocked" -> (DocsDir(root) :> File(Old)) @@ upto @@ base
          [] OTHER -> ((root \o <<Comp("README.md")>>) :> Dir) @@ upto @@ base

\* The filesystem the behaviour started from
InitialFs == InitFs(pre, ProjectPath(name, pathArg))

\* The command line is typed and the filesystem is as the variant says
InitInputsOf(variants) ==
    /\ name \in Names
    /\ pathArg \in PathArgs
    /\ pre \in variants
    /\ pre # "fresh" => Len(name) > 0 \/ Truthy(pathArg)
    /\ fs = InitialFs

InitInputs == InitInputsOf(Variants)

\* The runs in `started` are about to enter main, at time c
InitRun(c, started) ==
    /\ clock = c
    /\ pc = [r \in Runs |-> IF r \in started THEN "main" ELSE "idle"]
    /\ ip = [r \in Runs |-> 0]
    /\ project_path = [r \in Runs |-> Root]
    /\ settings = [r \in Runs |-> <<>>]
    /\ docs = [r \in Runs |-> <<>>]
    /\ exc = [r \in Runs |-> <<>>]
    /\ exit_code = [r \in Runs |-> <<>>]
    /\ console = <<>>
    /\ log = <<>>

Init ==
    /\ InitInputs
    /\ name2 = name
    /\ order = ProgramOrder
    /\ InitRun(0, {1})

\* The run starts at the last instant of the window, so that every
\* datetime.now() of the run returns that instant
InitLate ==
    /\ InitInputs
    /\ name2 = name
    /\ order = ProgramOrder
    /\ InitRun(MaxClock, {1})

\* ------------------------------------------------------------- the actions

Line(r, kind, what) == [run |-> r, kind |-> kind, what |-> what]

ConfirmationOmitted(r, p) == <<>>

\* print(f"✅ Created ...: {p}") after the directory or file p was made
Confirmation(r, p) == <<Line(r, "created", p)>>
\* A filesystem call of run r: whether it returned (ok) or raised, the node it
\* left at the path, and whether a failure came from the environment (env:
\* permissions, disk full, encoding) and not from what is at the path
Call(r, call, path, ok, node, env) ==
    [run |-> r, call |-> call, path |-> path, ok |-> ok, node |-> node, env |-> env]

Exited(r) == pc[r] = "exited"
\* main constructed ClaudeProjectSetup and called setup_project: the name passed
Accepted(r) == ip[r] >= 1
Status(r) == exit_code[r][1]

At(r, op) == pc[r] = "setup" /\ ip[r] \in 1..Len(Program) /\ Program[ip[r]].op = op
Cur(r) == Program[ip[r]]

\* The call at the current position returned: go on with the next one
Advance(r) ==
    /\ ip' = [ip EXCEPT ![r] = ip[r] + 1]
    /\ UNCHANGED <<pc, exc, exit_code>>

\* The call at the current position raised exception e
Throw(r, e) ==
    /\ ip' = [ip EXCEPT ![r] = Raise(ip[r])]
    /\ exc' = [exc EXCEPT ![r] = <<e>>]
    /\ UNCHANGED <<pc, exit_code, console>>

\* main: validate the name, construct ClaudeProjectSetup, enter setup_project
Main(r) ==
    /\ pc[r] = "main"
    /\ IF ~ValidName(NameOf(r))
       THEN /\ console' = Append(console, Line(r, "invalid", <<>>))
            /\ pc' = [pc EXCEPT ![r] = "exited"]
            /\ exit_code' = [exit_code EXCEPT ![r] = <<InvalidNameStatus>>]
            /\ UNCHANGED <<ip, project_path>>
       ELSE /\ project_path' = [project_path EXCEPT ![r] = ProjectPath(NameOf(r), pathArg)]
            /\ console' = console \o << Line(r, "banner", <<>>),
                                        Line(r, "path", ProjectPath(NameOf(r), pathArg)) >>
            /\ pc' = [pc EXCEPT ![r] = "setup"]
            /\ ip' = [ip EXCEPT ![r] = 1]
            /\ UNCHANGED exit_code
    /\ UNCHANGED <<inputs, fs, clock, settings, docs, exc, log>>

\* create_directory_structure: one directory.mkdir(parents=True, exist_ok=True)
Mkdir(r) ==
    /\ At(r, "mkdir")
    /\ LET p == Directories(project_path[r])[Cur(r).i]
           have == CHOOSE k \in 0..Len(p) :
                       /\ \A j \in 0..k : Exists(fs, SubSeq(p, 1, j))
                       /\ k < Len(p) => ~Exists(fs, SubSeq(p, 1, k + 1))
       IN  \/ /\ MkdirOk(fs, p)
              /\ fs' = MkdirResult(fs, p)
              /\ log' = Append(log, Call(r, "mkdir", p, TRUE, Dir, FALSE))
              /\ console' = console \o Confirmation(r, p)
              /\ Advance(r)
           \/ \* FileExistsError, NotADirectoryError
              /\ ~MkdirOk(fs, p)
              /\ log' = Append(log, Call(r, "mkdir", p, FALSE, Dir, FALSE))
              /\ Throw(r, [call |-> "mkdir", path |-> p])
              /\ UNCHANGED fs
           \/ \* the operating system refuses (permissions, disk full), perhaps
              \* after some of the missing ancestors were created
              /\ MkdirOk(fs, p)
              /\ IF Exists(fs, p)
                 THEN UNCHANGED fs
                 ELSE \E k \in have..(Len(p) - 1) : fs' = MkdirUpTo(fs, p, k)
              /\ log' = Append(log, Call(r, "mkdir", p, FALSE, Dir, TRUE))
              /\ Throw(r, [call |-> "mkdir", path |-> p])
    /\ UNCHANGED <<inputs, clock, project_path, settings, docs>>

\* create_claude_settings: build the settings mapping, reading the clock
BuildSettings(r) ==
    /\ At(r, "settings")
    /\ \E t \in clock..MaxClock :
          /\ clock' = t
          /\ settings' = [settings EXCEPT ![r] = <<Settings(NameOf(r), t)>>]
    /\ Advance(r)
    /\ UNCHANGED <<inputs, fs, project_path, docs, console, log>>

\* create_documentation_structure: render one template of the docs dict,
\* reading the clock
BuildDoc(r) ==
    /\ At(r, "doc")
    /\ \E t \in clock..MaxClock :
          /\ clock' = t
          /\ docs' = [docs EXCEPT ![r] = Append(docs[r], Render(Cur(r).file, NameOf(r), t))]
    /\ Advance(r)
    /\ UNCHANGED <<inputs, fs, project_path, settings, console, log>>

\* The content a run writes to the file of program entry e
DataOf(r, e) ==
    IF e.file = "settings.json" THEN settings[r][1]
    ELSE IF e.step = 4
         THEN docs[r][CHOOSE i \in 1..Len(DocNames) : DocNames[i] = e.file]
         ELSE Render(e.file, NameOf(r), 0)

\* open(file, 'w')
Open(r) ==
    /\ At(r, "open")
    /\ LET p == FilePath(project_path[r], Cur(r))
       IN  \/ /\ OpenOk(fs, p)
              /\ fs' = OpenResult(fs, p)
              /\ log' = Append(log, Call(r, "open", p, TRUE, File(Empty), FALSE))
              /\ Advance(r)
              /\ UNCHANGED console
           \/ \* IsADirectoryError, FileNotFoundError, NotADirectoryError
              /\ ~OpenOk(fs, p)
              /\ log' = Append(log, Call(r, "open", p, FALSE, File(Empty), FALSE))
              /\ Throw(r, [call |-> "open", path |-> p])
              /\ UNCHANGED fs
           \/ \* the operating system refuses (permissions, too many files)
              /\ OpenOk(fs, p)
              /\ log' = Append(log, Call(r, "open", p, FALSE, File(Empty), TRUE))
              /\ Throw(r, [call |-> "open", path |-> p])
              /\ UNCHANGED fs
    /\ UNCHANGED <<inputs, clock, project_path, settings, docs>>

\* f.write(..) or json.dump(.., f), the close of the with block and the
\* confirmation line
Write(r) ==
    /\ At(r, "write")
    /\ LET p == FilePath(project_path[r], Cur(r))
           data == DataOf(r, Cur(r))
       IN  \/ /\ fs' = WriteResult(fs, p, data)
              /\ log' = Append(log, Call(r, "write", p, TRUE, File(data), FALSE))
              /\ console' = console \o Confirmation(r, p)
              /\ Advance(r)
           \/ \* the write fails (disk full, encoding error): nothing or a part
              \* of the data has reached the file
              /\ \E d \in {Empty, Partial(data)} :
                    /\ fs' = WriteResult(fs, p, d)
                    /\ log' = Append(log, Call(r, "write", p, FALSE, File(d), TRUE))
              /\ Throw(r, [call |-> "write", path |-> p])
    /\ UNCHANGED <<inputs, clock, project_path, settings, docs>>

\* setup_project: the completion message and the return to main, which ends
\* the process with status 0
Complete(r) ==
    /\ At(r, "complete")
    /\ console' = Append(console, Line(r, "complete", project_path[r]))
    /\ pc' = [pc EXCEPT ![r] = "exited"]
    /\ exit_code' = [exit_code EXCEPT ![r] = <<0>>]
    /\ UNCHANGED <<inputs, fs, clock, ip, project_path, settings, docs, exc, log>>

ExceptRestart(r) ==
    /\ pc[r] = "setup"
    /\ ip[r] = ExceptIp
    /\ console' = Append(console, Line(r, "error", exc[r][1].path))
    /\ ip' = [ip EXCEPT ![r] = 1]
    /\ exc' = [exc EXCEPT ![r] = <<>>]
    /\ UNCHANGED <<inputs, fs, clock, pc, project_path, settings, docs, exit_code, log>>

\* setup_project: except Exception as e: print the error, sys.exit(1)
Except(r) ==
    /\ pc[r] = "setup"
    /\ ip[r] = ExceptIp
    /\ fs' = ExceptFs(fs, project_path[r])
    /\ console' = Append(console, Line(r, "error", exc[r][1].path))
    /\ pc' = [pc EXCEPT ![r] = "exited"]
    /\ exit_code' = [exit_code EXCEPT ![r] = <<HandlerExit(exc[r][1])>>]
    /\ UNCHANGED <<inputs, clock, ip, project_path, settings, docs, exc, log>>

\* The user runs the same command again after a run that succeeded
Rerun(r) ==
    /\ r > 1
    /\ pc[r] = "idle"
    /\ Exited(r - 1)
    /\ Status(r - 1) = 0
    /\ pc' = [pc EXCEPT ![r] = "main"]
    /\ UNCHANGED <<inputs, fs, clock, ip, project_path, settings, docs, exc,
                   exit_code, console, log>>

Step(r) ==
    \/ Main(r)
    \/ Mkdir(r)
    \/ BuildSettings(r)
    \/ Open(r)
    \/ Write(r)
    \/ BuildDoc(r)
    \/ Complete(r)
    \/ Except(r)

\* One run of the program
Next == Step(1)

Spec == Init /\ [][Next]_vars

\* One run of the program during which the clock does not advance
SpecLate == InitLate /\ [][Next]_vars

\* ... on a target that may hold a symbolic link
InitLink ==
    /\ InitInputsOf(Variants \cup LinkVariants)
    /\ name2 = name
    /\ order = ProgramOrder
    /\ InitRun(MaxClock, {1})

SpecLink == InitLink /\ [][Next]_vars

\* One run of a process that is never suspended for ever: while a step of the
\* run is possible, one is eventually taken
SpecFair == Init /\ [][Next]_vars /\ WF_vars(Next)

\* One accepted name, for the specifications in which the name plays no part
SampleName == CHOOSE n \in Names : Len(n) = 1 /\ n[1] \in AsciiLetters

\* The seven steps are called in any of the orders tried, under the current
\* directory, with a clock that does not advance
InitPerm ==
    /\ InitInputs
    /\ name = SampleName
    /\ name2 = name
    /\ pathArg = None
    /\ order \in Orders
    /\ InitRun(MaxClock, {1})

\* One run of the seven steps in some order
SpecPerm == InitPerm /\ [][Next]_vars

\* Runs one after the other
NextRerun == \E r \in Runs : Step(r) \/ Rerun(r)

SpecRerun == Init /\ [][NextRerun]_vars

\* Runs one after the other while the clock does not advance
SpecRerunLate == InitLate /\ [][NextRerun]_vars

\* The run whose filesystem call is the last in the log, 0 when there is none
LastRun == IF log = <<>> THEN 0 ELSE log[Len(log)].run
\* How often the filesystem calls passed from one run to the other
Switches == Cardinality({i \in 1..(Len(log) - 1) : log[i].run # log[i + 1].run})
\* The operating system lets run r go on: it made the last call, or the other
\* run has ended, or another switch is within the bound, r is at a filesystem
\* call and the run that is preempted is about to make a directory or holds a
\* file open that it has not written: the points at which what r does can
\* matter to it.  A step that makes no filesystem call is scheduled with the
\* call that precedes it.  Once the operating system has refused a call of one
\* run the other run is not followed further: the schedules of interest are
\* those in which the runs are disturbed by each other only.
CanRun(r) ==
    /\ \A i \in 1..Len(log) : log[i].env => log[i].run = r
    /\ \/ LastRun \in {0, r}
       \/ \A o \in Runs \ {r} : Exited(o)
       \/ /\ Switches < MaxSwitches
          /\ At(r, "mkdir") \/ At(r, "open") \/ At(r, "write")
          /\ \E o \in Runs \ {r} : o = LastRun /\ (At(o, "mkdir") \/ At(o, "write"))

\* Two invocations started together with the same --path, the second with the
\* same name or a longer one, on a target that does not exist
InitConc ==
    /\ InitInputs
    /\ name = SampleName
    /\ name2 \in {name, name \o name}
    /\ Truthy(pathArg)
    /\ pre = "fresh"
    /\ order = ProgramOrder
    /\ InitRun(MaxClock, Runs)

\* Two processes whose steps interleave
NextConc == \E r \in Runs : CanRun(r) /\ Step(r)

SpecConc == InitConc /\ [][NextConc]_vars

\* ============================================================== the claims

\* The catalog of the specification (section 6), relative to the project root
CatalogDirs(root) ==
    { root \o <<Comp(".claude")>>,
      root \o <<Comp(".claude"), Comp("agents")>>,
      root \o <<Comp("docs")>> }

CatalogFiles(root) ==
    { root \o <<Comp(".claude"), Comp("settings.json")>>,
      root \o <<Comp(".claude"), Comp("agents"), Comp("mvp-planner.md")>>,
      root \o <<Comp(".claude"), Comp("agents"), Comp("architect.md")>>,
      root \o <<Comp(".claude"), Comp("agents"), Comp("code-reviewer.md")>>,
      root \o <<Comp(".claude"), Comp("agents"), Comp("test-runner.md")>>,
      root \o <<Comp(".claude"), Comp("agents"), Comp("debugger.md")>>,
      root \o <<Comp("docs"), Comp("01-scope.md")>>,
      root \o <<Comp("docs"), Comp("02-decisions.md")>>,
      root \o <<Comp("docs"), Comp("03-tasks.md")>>,
      root \o <<Comp("docs"), Comp("architecture-design.md")>>,
      root \o <<Comp("CLAUDE.md")>>,
      root \o <<Comp("PLAYBOOK.md")>>,
      root \o <<Comp(".gitignore")>>,
      root \o <<Comp("README.md")>> }

\* The paths of filesystem f that lie below root
Below(f, root) == {p \in DOMAIN f : IsPrefix(root, p) /\ p # root}

\* The calls of run r in the log
CallsOf(r) == {i \in 1..Len(log) : log[i].run = r}
FailedCalls(r) == {i \in CallsOf(r) : ~log[i].ok}

\* root holds the catalog and nothing else
ExactlyCatalog(f, root) ==
    /\ IsDir(f, root)
    /\ Below(f, root) = CatalogDirs(root) \cup CatalogFiles(root)
    /\ \A p \in CatalogDirs(root) : IsDir(f, p)
    /\ \A p \in CatalogFiles(root) : IsFile(f, p)

\* C1: a run with an accepted name and no --path, on a target <cwd>/<name>
\* that did not exist and with no failing filesystem call, ends with status 0
\* and with <cwd>/<name> holding exactly the catalog: the three directories
\* and the fourteen files, nothing missing and nothing else.
C1_FreshTargetHoldsExactlyCatalog ==
    ( /\ Exited(1)
      /\ Accepted(1)
      /\ pathArg = None
      /\ ~Exists(InitialFs, Cwd \o <<name>>)
      /\ FailedCalls(1) = {} )
    => ( /\ Status(1) = 0
         /\ ExactlyCatalog(fs, Cwd \o <<name>>) )

C1_Witness ==
    /\ Exited(1) /\ Accepted(1) /\ pathArg = None /\ FailedCalls(1) = {}
    /\ ~Exists(InitialFs, Cwd \o <<name>>)
    /\ Len(name) = MaxNameLen
    /\ IsFile(fs, Cwd \o <<name, Comp("README.md")>>)

\* C2: for every name that does not match ^[A-Za-z0-9_-]+$ the run fails
\* before any filesystem access: no setup step starts, nothing is created or
\* written, and the exit status is not zero.
C2_InvalidNameTouchesNothing ==
    ~MatchesPattern(name)
    => ( /\ ~Accepted(1)
         /\ pc[1] # "setup"
         /\ log = <<>>
         /\ fs = InitialFs
         /\ Exited(1) => Status(1) # 0 )

\* C3: the validation accepts a name if and only if it matches
\* ^[A-Za-z0-9_-]+$ (names made of hyphens and underscores alone included).
C3_ValidationIsThePattern ==
    pc[1] # "main" => (Accepted(1) <=> MatchesPattern(name))

\* The root that C4 states: the --path value when one is given, else cwd/name
C4_StatedRoot(given) == IF given THEN PathOf(pathArg) ELSE Cwd \o <<name>>

\* Every call of run r is on root, on a catalog directory or on a catalog file
\* directly under root
C4_CallsUnder(r, root) ==
    \A i \in CallsOf(r) :
        /\ log[i].call = "mkdir" => log[i].path \in {root} \cup CatalogDirs(root)
        /\ log[i].call # "mkdir" => log[i].path \in CatalogFiles(root)

C5_PathIsParentDirectory ==
    Accepted(1) =>
        LET parent == IF pathArg = None THEN Cwd ELSE PathOf(pathArg)
        IN  /\ project_path[1] = parent \o <<name>>
            /\ C4_CallsUnder(1, parent \o <<name>>)

\* The lines of kind `kind` that run r printed
LinesOf(r, kind) == {i \in 1..Len(console) : console[i].run = r /\ console[i].kind = kind}

\* The calls of run r that print a confirmation line when they return
Confirmed(r) == {i \in CallsOf(r) : log[i].ok /\ log[i].call \in {"mkdir", "write"}}

\* C6: when a directory creation or a file write of setup_project fails, the
\* run makes no later filesystem call, control is in the except clause, no
\* confirmation or completion line follows, and once the process has exited
\* the failure was reported in one error line and the status is not zero.
C6_AbortOnFirstFailure ==
    \A i \in FailedCalls(1) :
        /\ \A j \in CallsOf(1) : j <= i
        /\ pc[1] = "setup" => ip[1] = ExceptIp
        /\ Cardinality(LinesOf(1, "created")) = Cardinality(Confirmed(1))
        /\ LinesOf(1, "complete") = {}
        /\ Exited(1) =>
              /\ Status(1) # 0
              /\ Cardinality(LinesOf(1, "error")) = 1
              /\ console[Len(console)] = Line(1, "error", log[i].path)

C6_Witness ==
    /\ Exited(1)
    /\ \E i \in FailedCalls(1) :
          /\ log[i].call = "write"
          /\ log[i].path = DocsDir(project_path[1]) \o <<Comp("01-scope.md")>>
    /\ Confirmed(1) # {}

\* The last call of run r on the path of call i is call i
LastOnPath(r, i) == \A j \in CallsOf(r) : log[j].path = log[i].path => j <= i

\* C7: after a run has aborted and exited, every directory and file the run
\* had created or written is on disk as the run left it: the failure handler
\* deletes nothing and rewrites nothing.
C7_NoRollback ==
    (Exited(1) /\ exc[1] # <<>>) =>
        \A i \in CallsOf(1) :
            ((log[i].ok \/ log[i].call = "write") /\ LastOnPath(1, i)) =>
                /\ Exists(fs, log[i].path)
                /\ fs[log[i].path] = log[i].node

C7_Witness ==
    /\ Exited(1) /\ exc[1] # <<>>
    /\ exc[1][1].path = project_path[1] \o <<Comp("README.md")>>
    /\ \E p \in CatalogFiles(project_path[1]) : IsFile(fs, p) /\ fs[p].data.kind = "json"
    /\ \E p \in CatalogFiles(project_path[1]) : IsFile(fs, p) /\ fs[p].data.kind = "text"

\* All seven steps of run r completed: every directory was made and every
\* catalog file written, and no call failed
StepsCompleted(r) ==
    /\ FailedCalls(r) = {}
    /\ \A p \in {project_path[r]} \cup CatalogDirs(project_path[r]) :
          \E i \in CallsOf(r) : log[i].ok /\ log[i].call = "mkdir" /\ log[i].path = p
    /\ \A p \in CatalogFiles(project_path[r]) :
          \E i \in CallsOf(r) : log[i].ok /\ log[i].call = "write" /\ log[i].path = p

NoEnvFault(r) == \A i \in CallsOf(r) : ~log[i].env

\* The node the write of run r left at path p
Written(r, p) ==
    log[CHOOSE i \in CallsOf(r) : log[i].ok /\ log[i].call = "write" /\ log[i].path = p].node

\* The labels of the lines that carry a date
DateLabels == {"**Last Updated**: ", "**Date**: "}

\* A document without its timestamp-bearing fields
StripTime(data) ==
    CASE data.kind = "json" -> [data EXCEPT !.project_settings.created = <<>>]
      [] data.kind = "text" ->
            [data EXCEPT !.lines =
                [k \in DOMAIN data.lines |->
                    IF Head(data.lines[k]) \in DateLabels
                    THEN <<Head(data.lines[k])>> ELSE data.lines[k]]]
      [] OTHER -> data

\* The paths on disk when the first run has succeeded: those there before it
\* and those it made
PathsAfterFirstRun ==
    DOMAIN InitialFs \cup UNION {Prefixes(log[i].path) : i \in {j \in CallsOf(1) : log[j].ok}}

\* C9: a second run with the same name against the same destination, after a
\* first run that succeeded and with no failure caused by the environment,
\* succeeds too and leaves the same set of file and directory paths as the
\* first; every catalog file then holds what the second run wrote, which is
\* what the first run wrote except for the timestamp and date fields.
C9_SecondRunSameStructure ==
    (Exited(2) /\ NoEnvFault(2)) =>
        /\ Status(1) = 0
        /\ Status(2) = 0
        /\ DOMAIN fs = PathsAfterFirstRun
        /\ \A p \in CatalogFiles(project_path[2]) :
              /\ fs[p] = Written(2, p)
              /\ StripTime(Written(2, p).data) = StripTime(Written(1, p).data)

C9_Witness ==
    /\ Exited(2) /\ Status(2) = 0 /\ pre = "fresh"
    /\ settings[1] # settings[2]
    /\ docs[1] # docs[2]

\* A concrete file name matches a segment pattern: literally, or up to a
\* trailing "*"
SegMatch(pat, seg) ==
    IF pat[Len(pat)] = "*"
    THEN /\ Len(seg) >= Len(pat) - 1
         /\ SubSeq(seg, 1, Len(pat) - 1) = SubSeq(pat, 1, Len(pat) - 1)
    ELSE pat = seg

RECURSIVE GlobMatch(_, _)
\* A concrete relative path matches a glob; "**" matches whatever follows
GlobMatch(pats, segs) ==
    IF pats = <<>> THEN segs = <<>>
    ELSE IF Head(pats) = <<"**">> THEN TRUE
    ELSE /\ segs # <<>>
         /\ SegMatch(Head(pats), Head(segs))
         /\ GlobMatch(Tail(pats), Tail(segs))

\* Some rule of the list covers `tool` on `path`
Covers(rules, tool, path) ==
    \E i \in 1..Len(rules) : rules[i].tool = tool /\ GlobMatch(rules[i].glob, path)

\* Environment files and files of the secrets directory
SensitivePaths ==
    { <<Comp(".env")>>,
      <<<<".env.", "local">>>>,
      <<<<".env.", "production">>>>,
      <<Comp("secrets"), Comp("key.pem")>>,
      <<Comp("secrets"), Comp("prod"), Comp("db.json")>> }

\* C10: every settings document on disk, whatever the project name, denies
\* Read and Write of ./.env, ./.env.* and ./secrets/** in permissions.deny,
\* and no rule of permissions.allow covers Read or Write of such a path.
C10_SensitivePathsDenied ==
    \A p \in DOMAIN fs :
        (fs[p].type = "file" /\ fs[p].data.kind = "json") =>
            LET perms == fs[p].data.permissions
                rules == {perms.deny[i] : i \in 1..Len(perms.deny)}
            IN  /\ \A tool \in {"Read", "Write"} :
                      /\ Rule(tool, <<Comp(".env")>>) \in rules
                      /\ Rule(tool, <<<<".env.", "*">>>>) \in rules
                      /\ Rule(tool, <<Comp("secrets"), Comp("**")>>) \in rules
                /\ \A tool \in {"Read", "Write"}, path \in SensitivePaths :
                      /\ Covers(perms.deny, tool, path)
                      /\ ~Covers(perms.allow, tool, path)

C10_Witness ==
    /\ UnicodeLetters \cap {name[i] : i \in 1..Len(name)} # {}
    /\ \E p \in DOMAIN fs :
          /\ fs[p].type = "file"
          /\ fs[p].data.kind = "json"
          /\ fs[p].data.project_settings.name = name

\* --------------------------------------------------------------------- C11

SettingsPath(root) == ClaudeDir(root) \o <<Comp("settings.json")>>
GitignorePath(root) == root \o <<Comp(".gitignore")>>
\* The names main accepts
AcceptedNames == {n \in Names : ValidName(n)}
\* The document a run wrote completely is at path p
HoldsDocument(p, kind) == IsFile(fs, p) /\ fs[p].data.kind = kind

\* C11: when a run has ended, the settings document and the .gitignore it left
\* on disk are what a run with any other accepted project name would have
\* written, except for the field project_settings.name of the settings, which
\* holds the name of this run: permissions.allow, permissions.deny,
\* context_limits and the whole of .gitignore do not depend on the name.
C11_NameIndependence ==
    Exited(1) => \A n2 \in AcceptedNames :
       /\ HoldsDocument(SettingsPath(project_path[1]), "json") =>
             \E t \in 0..MaxClock :
                fs[SettingsPath(project_path[1])].data =
                   [Settings(n2, t) EXCEPT !.project_settings.name = name]
       /\ HoldsDocument(GitignorePath(project_path[1]), "text") =>
             \A t \in 0..MaxClock :
                fs[GitignorePath(project_path[1])].data = Render(".gitignore", n2, t)

\* A run with one name has written both documents and another name is accepted
C11_Witness ==
    /\ Exited(1) /\ Status(1) = 0
    /\ HoldsDocument(SettingsPath(project_path[1]), "json")
    /\ HoldsDocument(GitignorePath(project_path[1]), "text")
    /\ \E n2 \in AcceptedNames : n2 # name

\* --------------------------------------------------------------------- C12

\* The twelve markdown documents of the catalog
MarkdownFiles(root) == CatalogFiles(root) \ {SettingsPath(root), GitignorePath(root)}
ReadmePath(root) == root \o <<Comp("README.md")>>
\* The string n occurs in the string `line`
Contains(line, n) ==
    \E k \in 1..(Len(line) - Len(n) + 1) : SubSeq(line, k, k + Len(n) - 1) = n

\* C12: every markdown document of the catalog that a run has written holds the
\* project name, symbol for symbol, in at least one of its lines, and the first
\* line of README.md is "# " followed by the name.
C12_NameInEveryDocument ==
    /\ \A p \in MarkdownFiles(project_path[1]) :
          HoldsDocument(p, "text") =>
             \E i \in 1..Len(fs[p].data.lines) : Contains(fs[p].data.lines[i], name)
    /\ HoldsDocument(ReadmePath(project_path[1]), "text") =>
          fs[ReadmePath(project_path[1])].data.lines[1] = <<"# ">> \o name

\* The twelve documents are written, for a name of the greatest length
C12_Witness ==
    /\ Exited(1) /\ Status(1) = 0
    /\ Len(name) = MaxNameLen
    /\ Cardinality(MarkdownFiles(project_path[1])) = 12
    /\ \A p \in MarkdownFiles(project_path[1]) : HoldsDocument(p, "text")

\* --------------------------------------------------------------------- C13

\* The directories and files that each of the seven steps makes
StepPaths(root, s) ==
    CASE s = 1 -> {root} \cup CatalogDirs(root)
      [] s = 2 -> {root \o <<Comp(".claude"), Comp("settings.json")>>}
      [] s = 3 -> {p \in CatalogFiles(root) : Parent(p) = root \o <<Comp(".claude"), Comp("agents")>>}
      [] s = 4 -> {p \in CatalogFiles(root) : Parent(p) = root \o <<Comp("docs")>>}
      [] s = 5 -> {root \o <<Comp("CLAUDE.md")>>, root \o <<Comp("PLAYBOOK.md")>>}
      [] s = 6 -> {root \o <<Comp(".gitignore")>>}
      [] OTHER -> {root \o <<Comp("README.md")>>}
\* The step that makes path p
StepOfPath(root, p) == CHOOSE s \in 1..7 : p \in StepPaths(root, s)
\* Call i made the directory or wrote the file at its path
Made(i) == log[i].ok /\ log[i].call \in {"mkdir", "write"}

\* C13: the filesystem calls of a run follow the order directories, settings,
\* agent documents, docs, CLAUDE.md and PLAYBOOK.md, .gitignore, README.md: a
\* call of a later step never precedes a call of an earlier step, no call is
\* made twice, and when a call of some step is made every directory and file
\* of all earlier steps has been made.  Stated of the call made last, which
\* every call of the run is in the state that follows it.
C13_FixedStepOrder ==
    (log # <<>> /\ log[Len(log)].run = 1) =>
       LET root == project_path[1]
           j == Len(log)
           sj == StepOfPath(root, log[j].path)
       IN  /\ \E s \in 1..7 : log[j].path \in StepPaths(root, s)
           /\ \A i \in 1..(j - 1) :
                 /\ \E s \in 1..sj : log[i].path \in StepPaths(root, s)
                 /\ ~(log[i].call = log[j].call /\ log[i].path = log[j].path)
           /\ \A s \in 1..(sj - 1) : \A p \in StepPaths(root, s) :
                 \E i \in 1..(j - 1) : Made(i) /\ log[i].path = p

\* A run went through the seven steps: 4 mkdir calls, 14 opens and 14 writes
C13_Witness ==
    /\ Exited(1) /\ Status(1) = 0
    /\ Cardinality(CallsOf(1)) = 32
    /\ \A s \in 1..7 : \A p \in StepPaths(project_path[1], s) :
          \E i \in CallsOf(1) : Made(i) /\ log[i].path = p

\* --------------------------------------------------------------------- C14

\* What the seven steps need of the filesystem f to succeed in program order:
\* no component of the four directories is a file and no catalog file is a
\* directory
Creatable(f, root) ==
    /\ \A d \in {root} \cup CatalogDirs(root) :
          \A q \in Prefixes(d) : q \in DOMAIN f => f[q].type = "dir"
    /\ \A p \in CatalogFiles(root) : ~(p \in DOMAIN f /\ f[p].type = "dir")
\* The paths on disk after the seven steps succeeded on f
PathsWhenDone(f, root) ==
    DOMAIN f \cup Prefixes(root) \cup CatalogDirs(root) \cup CatalogFiles(root)
\* The outcome of the run is the outcome of program order on the same
\* filesystem
SameOutcome ==
    /\ Status(1) = 0 <=> Creatable(InitialFs, project_path[1])
    /\ Status(1) = 0 => DOMAIN fs = PathsWhenDone(InitialFs, project_path[1])

\* C14 as stated: in whatever order the seven steps are called on a
\* filesystem, the run succeeds or fails as in program order and leaves the
\* same set of paths.
C14_AnyOrderSameOutcome ==
    (Exited(1) /\ Accepted(1) /\ NoEnvFault(1)) => SameOutcome

\* C14 amended: when create_directory_structure is called first, in whatever
\* order the other six steps are called on a filesystem, the run succeeds or
\* fails as in program order and, when it succeeds, leaves the same set of
\* paths.
C14_DirectoriesFirstSameOutcome ==
    (Exited(1) /\ Accepted(1) /\ NoEnvFault(1) /\ order[1] = 1) => SameOutcome

\* The six writing steps ran in the reverse of program order and succeeded
C14_Witness ==
    /\ Exited(1) /\ Status(1) = 0 /\ NoEnvFault(1)
    /\ order = <<1, 7, 6, 5, 4, 3, 2>>
    /\ IsFile(fs, ReadmePath(project_path[1]))

\* --------------------------------------------------------------------- C15

\* No component of path p is on f as something other than a directory
NoCollision(f, p) == \A q \in Prefixes(p) : q \in DOMAIN f => f[q].type = "dir"

\* What one directory.mkdir(..) of create_directory_structure did, c being the
\* call it logged
IdempotentCreate(r, c) ==
    /\ c.path \in {project_path[r]} \cup CatalogDirs(project_path[r])
    /\ (NoCollision(fs, c.path) /\ ~c.env) =>
          /\ c.ok
          /\ DOMAIN fs' = DOMAIN fs \cup Prefixes(c.path)
          /\ \A q \in DOMAIN fs : fs'[q] = fs[q]
          /\ \A q \in Prefixes(c.path) : fs'[q].type = "dir"
    /\ (c.path \in DOMAIN fs /\ fs[c.path].type = "dir") => fs' = fs
    /\ r > 1 => fs' = fs

\* C15: each call of create_directory_structure makes one of the four
\* directories; unless a component of the path is a file or the operating
\* system refuses, it succeeds, whether or not the directory exists, creates
\* the path with its missing ancestors and leaves everything that existed as
\* it was; a directory that exists is left unchanged, and the calls of a second
\* run change nothing on disk.
C15_IdempotentCreate ==
    [][\A r \in Runs :
          (At(r, "mkdir") /\ ip'[r] # ip[r]) => IdempotentCreate(r, log'[Len(log')])]_vars

\* A second run has called create_directory_structure on the directories the
\* first run created, missing ancestors of the root included
C15_Witness ==
    /\ pc[2] = "setup" /\ ip[2] = Len(Directories(Root)) + 1
    /\ pre = "fresh" /\ Truthy(pathArg)
    /\ \A p \in CatalogDirs(project_path[2]) :
          \E i \in CallsOf(2) : log[i].ok /\ log[i].call = "mkdir" /\ log[i].path = p

\* --------------------------------------------------------------------- C16

\* The four documents of docs/, which carry a date
DatedFiles(root) == {p \in CatalogFiles(root) : Parent(p) = root \o <<Comp("docs")>>}
\* The date written in a document of docs/
DateIn(data) ==
    LET i == CHOOSE k \in 1..Len(data.lines) : data.lines[k][1] \in DateLabels
    IN  SubSeq(data.lines[i], 2, Len(data.lines[i]))

\* C16: the timestamp fields a run has written come from one instant read once:
\* there is an instant t such that project_settings.created of the settings on
\* disk is t and the date of every document of docs/ on disk is the calendar
\* date of t.
C16_SingleTimestamp ==
    LET root == project_path[1]
    IN  \E t \in 0..MaxClock :
           /\ HoldsDocument(SettingsPath(root), "json") =>
                 fs[SettingsPath(root)].data.project_settings.created = IsoFormat(t)
           /\ \A p \in DatedFiles(root) :
                 HoldsDocument(p, "text") => DateIn(fs[p].data) = StrfDate(t)

\* --------------------------------------------------------------------- C17

\* The name of the file at path p
FileName(p) == p[Len(p)][1]
\* The kinds of line a run prints
LineKinds == {"invalid", "banner", "path", "created", "complete", "error"}

\* C17: after a run that succeeded, every catalog file holds exactly the
\* document this run rendered for it and wrote, whatever the file held before,
\* no path has appeared beside the catalog (no backup copy), and the run
\* printed nothing but its banner, its confirmations and its completion
\* message (it asked nothing).
C17_TruncateAndReplace ==
    (Exited(1) /\ Status(1) = 0) =>
       LET root == project_path[1]
       IN  /\ \A p \in CatalogFiles(root) :
                /\ IsFile(fs, p)
                /\ fs[p] = Written(1, p)
                /\ \E t \in 0..MaxClock : fs[p].data = Render(FileName(p), name, t)
           /\ DOMAIN fs = PathsWhenDone(InitialFs, root)
           /\ \A i \in 1..Len(console) : console[i].kind \in LineKinds \ {"invalid", "error"}

\* A run succeeded on a target where every catalog file held other content
C17_Witness ==
    /\ Exited(1) /\ Status(1) = 0
    /\ \A p \in CatalogFiles(project_path[1]) :
          /\ IsFile(InitialFs, p) /\ InitialFs[p].data = Old
          /\ fs[p].data.kind \in {"json", "text"}

\* --------------------------------------------------------------------- C18

\* The paths of the confirmation lines printed, oldest first
ConfirmedPaths ==
    LET lines == SelectSeq(console, LAMBDA l : l.run = 1 /\ l.kind = "created")
    IN  [i \in 1..Len(lines) |-> lines[i].what]
\* The paths of the directories and files made, oldest first
MadePaths ==
    LET calls == SelectSeq(log, LAMBDA c : c.run = 1 /\ c.ok /\ c.call \in {"mkdir", "write"})
    IN  [i \in 1..Len(calls) |-> calls[i].path]
\* The lines that report a failure
ErrorLines == LinesOf(1, "error") \cup LinesOf(1, "invalid")

\* C18: at every moment the confirmation lines on the console name, in order
\* and once each, the directories and files made so far, so a line follows its
\* artefact before the next call and an artefact that failed has none; a run
\* that succeeded has confirmed the 4 directories and the 14 files; an error
\* line is never followed by another line, and a run that failed has printed
\* exactly one error line and no completion message.
C18_ConsoleProtocol ==
    /\ ConfirmedPaths = MadePaths
    /\ \A i \in ErrorLines : i = Len(console)
    /\ (Exited(1) /\ Status(1) = 0) =>
          /\ {ConfirmedPaths[i] : i \in 1..Len(ConfirmedPaths)} =
                {project_path[1]} \cup CatalogDirs(project_path[1])
                   \cup CatalogFiles(project_path[1])
          /\ Len(ConfirmedPaths) = 18
          /\ Cardinality(LinesOf(1, "complete")) = 1
    /\ (Exited(1) /\ Status(1) # 0) =>
          /\ Cardinality(ErrorLines) = 1
          /\ LinesOf(1, "complete") = {}

\* A run failed at a file after it had confirmed other artefacts
C18_Witness ==
    /\ Exited(1) /\ Status(1) # 0
    /\ Len(ConfirmedPaths) > Cardinality(CatalogDirs(project_path[1])) + 1
    /\ \E i \in FailedCalls(1) : log[i].call = "write"
    /\ Cardinality(LinesOf(1, "error")) = 1

\* --------------------------------------------------------------------- C19

\* Both runs ended with success on the same root
BothDone ==
    /\ \A r \in Runs : Exited(r) /\ Status(r) = 0
    /\ project_path[1] = project_path[2]
\* The call that wrote path p last
LastWrite(p) ==
    CHOOSE i \in 1..Len(log) :
       /\ log[i].ok /\ log[i].call = "write" /\ log[i].path = p
       /\ \A j \in (i + 1)..Len(log) :
             ~(log[j].ok /\ log[j].call = "write" /\ log[j].path = p)
\* No call failed on account of what is on disk, which is all that one run can
\* do to the other
NoFailureByTheOther == \A i \in 1..Len(log) : ~log[i].ok => log[i].env
\* The root holds exactly the catalog
CatalogOnly(root) ==
    /\ Below(fs, root) = CatalogDirs(root) \cup CatalogFiles(root)
    /\ \A p \in CatalogFiles(root) : IsFile(fs, p)

\* C19 as stated: two runs on one destination do not fail because of each
\* other, leave exactly the catalog, and every catalog file holds the whole
\* content, and only that, of the run that wrote it last.
C19_LastWriterWins ==
    /\ NoFailureByTheOther
    /\ BothDone =>
          /\ CatalogOnly(project_path[1])
          /\ \A p \in CatalogFiles(project_path[1]) : fs[p] = log[LastWrite(p)].node

\* C19 amended: two runs on one destination do not fail because of each other
\* and leave exactly the catalog; every catalog file begins with the whole
\* content of the run that wrote it last, and holds only that when the content
\* is at least as long as what the other run wrote to the file; when it is
\* shorter the remainder of the other run's content may follow it.
C19_LastWriterAtOffsetZero ==
    /\ NoFailureByTheOther
    /\ BothDone =>
          /\ CatalogOnly(project_path[1])
          /\ \A p \in CatalogFiles(project_path[1]) :
                LET w == log[LastWrite(p)]
                    other == Written(CHOOSE o \in Runs : o # w.run, p).data
                IN  \/ fs[p] = w.node
                    \/ /\ Size(other) > Size(w.node.data)
                       /\ fs[p].data = [kind |-> "torn", head |-> w.node.data, rest |-> other]

\* Both runs succeeded, their calls having interleaved, and README.md was
\* last written by the run that had opened it first
C19_Witness ==
    /\ BothDone
    /\ Switches > 0
    /\ \E i, j \in 1..Len(log) :
          /\ i < j /\ j < LastWrite(ReadmePath(project_path[1]))
          /\ log[i].call = "open" /\ log[i].path = ReadmePath(project_path[1])
          /\ log[j].call = "open" /\ log[j].path = ReadmePath(project_path[1])
          /\ log[i].run = log[LastWrite(ReadmePath(project_path[1]))].run
          /\ log[j].run # log[i].run

\* --------------------------------------------------------------------- C20

\* C20: every run ends, and until it ends every step it takes moves it forward
\* in the program or ends it: it never goes back to a call it has made, never
\* stays at a call, and has no state from which it goes on for ever.
C20_Termination ==
    /\ <>Exited(1)
    /\ [][ \/ ip'[1] > ip[1]
           \/ pc[1] # "exited" /\ pc'[1] = "exited" ]_vars

\* A run has ended by aborting at its first failed call, a mkdir
C20_Witness ==
    /\ Exited(1) /\ ip[1] = ExceptIp
    /\ exc[1] # <<>> /\ exc[1][1].call = "mkdir"
    /\ Cardinality(FailedCalls(1)) = 1

\* --------------------------------------------------------------------- C21

\* The project root of the command line
GivenRoot == ProjectPath(name, pathArg)
\* Everything that was on disk before the run and is not a catalog file path
\* is on disk unchanged, and what is new is a catalog path or a missing
\* ancestor of the root
FrameKept ==
    /\ \A q \in DOMAIN InitialFs :
          q \notin CatalogFiles(GivenRoot) => q \in DOMAIN fs /\ fs[q] = InitialFs[q]
    /\ DOMAIN fs \ DOMAIN InitialFs \subseteq
          Prefixes(GivenRoot) \cup CatalogDirs(GivenRoot) \cup CatalogFiles(GivenRoot)
\* No catalog file path is a symbolic link before the run
NoLinks ==
    \A p \in CatalogFiles(GivenRoot) : ~(p \in DOMAIN InitialFs /\ InitialFs[p].type = "link")

\* C21 as stated: during and after a run, whether it succeeds or aborts, every
\* file and directory that existed before it and is not one of the 14 catalog
\* file paths exists with unchanged content, and nothing is created outside the
\* catalog.
C21_Frame == FrameKept

\* C21 amended: the same, when no catalog file path is a symbolic link before
\* the run.
C21_FrameWithoutLinks == NoLinks => FrameKept

\* A run aborted after it had written files into a root that held other files
C21_Witness ==
    /\ Exited(1) /\ Status(1) # 0 /\ pre = "populated"
    /\ \E i \in CallsOf(1) : log[i].ok /\ log[i].call = "write"
    /\ IsFile(fs, GivenRoot \o <<Comp("notes.txt")>>)
    /\ IsFile(fs, GivenRoot \o <<Comp("docs"), Comp("extra.md")>>)


\* ------------------------------------------------------------------- C22

\* The catalog file paths whose write by the run failed
FailedWrites ==
    {log[i].path : i \in {j \in CallsOf(1) : log[j].call = "write" /\ ~log[j].ok}}

\* The path holds exactly what it held before the run
CompleteOld(p) == p \in DOMAIN InitialFs /\ fs[p] = InitialFs[p]

\* The path holds the whole content the run rendered for it and wrote
CompleteNew(p) ==
    \E i \in CallsOf(1) :
        log[i].call = "write" /\ log[i].ok /\ log[i].path = p /\ fs[p] = log[i].node

\* C22 as stated: after any run, including one aborted by a failure while
\* writing a file, every catalog file on disk holds either its complete content
\* from before the run or the complete content rendered by the run; none is
\* left empty or partially written and no earlier content is lost to a write
\* that did not complete
C22_AtomicWrites ==
    Exited(1) =>
        \A p \in CatalogFiles(GivenRoot) :
            IsFile(fs, p) => CompleteOld(p) \/ CompleteNew(p)

\* C22, amended: after any run every catalog file on disk other than the one
\* whose write failed holds either its complete content from before the run or
\* the complete content rendered by the run; the file whose write failed (at
\* most one, the run aborts there) is left empty or partially written, and
\* what it held before the run is lost
C22_OnlyFailedWriteIncomplete ==
    Exited(1) =>
        /\ \A p \in CatalogFiles(GivenRoot) :
              IsFile(fs, p) /\ p \notin FailedWrites => CompleteOld(p) \/ CompleteNew(p)
        /\ \A p \in FailedWrites :
              /\ p \in CatalogFiles(GivenRoot)
              /\ IsFile(fs, p)
              /\ fs[p].data.kind \in {"empty", "partial"}
              /\ ~CompleteOld(p)
        /\ Cardinality(FailedWrites) <= 1

\* A run on a populated project aborted by a failed write: the file being
\* written held earlier content and is left partial, a file written before it
\* holds its new content and a file not reached holds its old content
C22_Witness ==
    /\ Exited(1)
    /\ Status(1) # 0
    /\ \E p \in FailedWrites :
          /\ p \in DOMAIN InitialFs
          /\ InitialFs[p] = File(Old)
          /\ fs[p].data.kind = "partial"
    /\ \E p \in CatalogFiles(GivenRoot) : IsFile(fs, p) /\ CompleteNew(p) /\ ~CompleteOld(p)
    /\ \E p \in CatalogFiles(GivenRoot) : IsFile(fs, p) /\ CompleteOld(p)

====
